---- MODULE Spec2Model ----
(***************************************************************************)
(* Mercury: the editor core of src/editor.rs as a state machine.           *)
(*                                                                         *)
(* A Position is a record [x, y] of usize values.  A Document is the       *)
(* sequence of its rows, each row represented by its length (the only      *)
(* attribute of a Row that the cursor and scroll code reads).  The         *)
(* terminal is the size record [width, height] that Terminal::size()       *)
(* returns, two u16 values.                                                *)
(***************************************************************************)
EXTENDS Integers, Sequences, FiniteSets, TLC

VARIABLES
    want_quit,        \* Editor.want_quit
    terminal,         \* Editor.terminal: the size [width, height] that size() reports
    cursor_position,  \* Editor.cursor_position
    offset,           \* Editor.offset
    document,         \* Editor.document: the row lengths, first row first
    pc,               \* where Editor::run is: "refresh", "keypress", or a final place
    pressed_key,      \* the key read by the process_keypress of the step just taken
                      \* ("none" when that step was not a key press)
    entry,            \* the Position that call was entered with (the cursor; the
                      \* offset for a call of scroll on its own)
    error,            \* the io::Error that run handed to die ("none" while there is none)
    out,              \* the terminal operations issued by the most recent step
    quit_frames,      \* frames rendered since want_quit was set
    quit_keys,        \* keys read since want_quit was set
    downs,            \* length of the run of Down presses since the start
    all_down,         \* TRUE while every key so far was Down and the size never changed
    document_source,  \* how Editor::default got the document: "no_path", "opened"
                      \* or "open_failed"
    frames,           \* refresh_screen calls that ran to their flush, counted to MaxCount
    keys_read,        \* keys read_key returned, counted to MaxCount
    scrolls,          \* calls of scroll, counted to MaxCount
    scrolled_empty    \* TRUE when the latest scroll read a width or a height of 0

vars == <<want_quit, terminal, cursor_position, offset, document, pc, pressed_key,
          entry, error, out, quit_frames, quit_keys, downs, all_down,
          document_source, frames, keys_read, scrolls, scrolled_empty>>

\* The history variables that only the loop of Editor::run advances.
counters == <<frames, keys_read, scrolls, scrolled_empty>>

(***************************************************************************)
(* Bounds of the model.                                                    *)
(***************************************************************************)
\* Stand-in for usize::MAX (2^64 - 1 on the usual targets): every coordinate
\* saturates here.  It only has to exceed U16_MAX plus every document size.
USIZE_MAX == 1000000

\* Largest ordinary column / row drawn as an input of a single move_cursor call.
MaxX == 21
MaxY == 7

\* Largest ordinary coordinate drawn as an input of a single scroll call.
MaxCoord == 3

\* The run of Down presses is counted up to here.
MaxDowns == 31

\* Frames, keys and scroll calls are counted up to here.
MaxCount == 3

\* The lines of a frame are written out one by one up to this many.
MaxBodyRows == 25

\* u16::MAX, the largest width or height a terminal size can hold.
U16_MAX == 65535

(***************************************************************************)
(* Keys (termion::event::Key), as far as process_keypress tells them apart.*)
(***************************************************************************)
MOVE_KEYS == {"Left", "Up", "Right", "Down", "h", "j", "k", "l"}

SHORTCUT_MOVE_KEYS == {"PageDown", "PageUp", "Home", "End"}

\* Ctrl-P is the exit command; "a" stands for every key that is none of the above.
Keys == MOVE_KEYS \cup SHORTCUT_MOVE_KEYS \cup {"Ctrl_p", "a"}

is_move_shortcut(key) == key \in SHORTCUT_MOVE_KEYS

is_move_key(key) == key \in MOVE_KEYS

(***************************************************************************)
(* usize arithmetic.                                                       *)
(***************************************************************************)
saturating_sub(a, b) == IF a >= b THEN a - b ELSE 0

saturating_add(a, b) == IF a >= USIZE_MAX - b THEN USIZE_MAX ELSE a + b

Position(px, py) == [x |-> px, y |-> py]

Size(w, h) == [width |-> w, height |-> h]

(***************************************************************************)
(* Document and Row, as editor.rs uses them.                               *)
(***************************************************************************)
\* Document::len
document_len(doc) == Len(doc)

\* Document::is_empty
document_is_empty(doc) == Len(doc) = 0

\* Document::row(index): Some(row) as <<row>>, None as << >>.
document_row(doc, index) == IF index < Len(doc) THEN <<doc[index + 1]>> ELSE << >>

\* `if let Some(row) = self.document.row(y) { row.len() } else { 0 }`
row_width(doc, y) == IF document_row(doc, y) # << >> THEN document_row(doc, y)[1] ELSE 0

(***************************************************************************)
(* Editor::move_cursor, as a function of the cursor, the key and the       *)
(* document.                                                               *)
(***************************************************************************)
\* Variant: Down without the `y < height` test.
move_match_down_unguarded(pos, key, doc) ==
    LET x == pos.x
        y == pos.y
        height == document_len(doc)
        width == row_width(doc, y)
    IN  CASE key \in {"Up", "k"}    -> Position(x, saturating_sub(y, 1))
          [] key \in {"Down", "j"}  -> Position(x, saturating_add(y, 1))
          [] key \in {"Left", "h"}  -> Position(saturating_sub(x, 1), y)
          [] key \in {"Right", "l"} -> IF x < width
                                       THEN Position(saturating_add(x, 1), y)
                                       ELSE Position(x, y)
          [] key = "PageDown"       -> Position(x, height)
          [] key = "PageUp"         -> Position(x, 0)
          [] key = "Home"           -> Position(0, y)
          [] key = "End"            -> Position(width, y)
          [] OTHER                  -> Position(x, y)

\* Variant: PageDown goes to the last row instead of the row past it.
move_match_page_down_last(pos, key, doc) ==
    LET x == pos.x
        y == pos.y
        height == document_len(doc)
        width == row_width(doc, y)
    IN  CASE key \in {"Up", "k"}    -> Position(x, saturating_sub(y, 1))
          [] key \in {"Down", "j"}  -> IF y < height
                                       THEN Position(x, saturating_add(y, 1))
                                       ELSE Position(x, y)
          [] key \in {"Left", "h"}  -> Position(saturating_sub(x, 1), y)
          [] key \in {"Right", "l"} -> IF x < width
                                       THEN Position(saturating_add(x, 1), y)
                                       ELSE Position(x, y)
          [] key = "PageDown"       -> Position(x, saturating_sub(height, 1))
          [] key = "PageUp"         -> Position(x, 0)
          [] key = "Home"           -> Position(0, y)
          [] key = "End"            -> Position(width, y)
          [] OTHER                  -> Position(x, y)

\* The match on the key: the new (x, y) before the final clamp.
move_match(pos, key, doc) ==
    LET x == pos.x
        y == pos.y
        height == document_len(doc)
        width == row_width(doc, y)
    IN  CASE key \in {"Up", "k"}    -> Position(x, saturating_sub(y, 1))
          [] key \in {"Down", "j"}  -> IF y < height
                                       THEN Position(x, saturating_add(y, 1))
                                       ELSE Position(x, y)
          [] key \in {"Left", "h"}  -> Position(saturating_sub(x, 1), y)
          [] key \in {"Right", "l"} -> IF x < width
                                       THEN Position(saturating_add(x, 1), y)
                                       ELSE Position(x, y)
          [] key = "PageDown"       -> Position(x, height)
          [] key = "PageUp"         -> Position(x, 0)
          [] key = "Home"           -> Position(0, y)
          [] key = "End"            -> Position(width, y)
          [] OTHER                  -> Position(x, y)

\* Variant: no clamp after the move.
move_clamp_missing(pos, doc) == pos

\* Variant: the clamp uses the width of the first row.
move_clamp_first_row(pos, doc) ==
    LET width == row_width(doc, 0)
    IN  IF pos.x > width THEN Position(width, pos.y) ELSE pos

\* The clamp of x to the width of the row at the new y.
move_clamp(pos, doc) ==
    LET width == row_width(doc, pos.y)
    IN  IF pos.x > width THEN Position(width, pos.y) ELSE pos

move_cursor(pos, key, doc) == move_clamp(move_match(pos, key, doc), doc)

(***************************************************************************)
(* Editor::scroll, as a function of the cursor, the offset and the size.   *)
(***************************************************************************)
\* Variant: scrolling forward leaves the cursor one past the window.
scroll_axis_no_plus_one(c, o, extent) ==
    IF c < o THEN c
    ELSE IF c >= saturating_add(o, extent)
         THEN saturating_sub(c, extent)
         ELSE o

\* Variant: the test for scrolling forward is off by one.
scroll_axis_late(c, o, extent) ==
    IF c < o THEN c
    ELSE IF c > saturating_add(o, extent)
         THEN saturating_add(saturating_sub(c, extent), 1)
         ELSE o

\* Variant: scrolling forward advances the offset by one line per call.
scroll_axis_by_one(c, o, extent) ==
    IF c < o THEN c
    ELSE IF c >= saturating_add(o, extent)
         THEN saturating_add(o, 1)
         ELSE o

scroll_axis(c, o, extent) ==
    IF c < o THEN c
    ELSE IF c >= saturating_add(o, extent)
         THEN saturating_add(saturating_sub(c, extent), 1)
         ELSE o

scroll(cur, off, size) ==
    Position(scroll_axis(cur.x, off.x, size.width),
             scroll_axis(cur.y, off.y, size.height))

(***************************************************************************)
(* The two methods on the editor itself.  `self` is the record of the      *)
(* fields a method can write (want_quit, cursor_position, offset,          *)
(* document) and `scrolls`, the number of scroll calls made on it.         *)
(***************************************************************************)
\* Variant: scroll pulls the cursor back into the window instead of moving the
\* window forward.
self_scroll_moves_cursor(self, size) ==
    LET cx == IF self.cursor_position.x >= saturating_add(self.offset.x, size.width)
              THEN saturating_sub(saturating_add(self.offset.x, size.width), 1)
              ELSE self.cursor_position.x
        cy == IF self.cursor_position.y >= saturating_add(self.offset.y, size.height)
              THEN saturating_sub(saturating_add(self.offset.y, size.height), 1)
              ELSE self.cursor_position.y
    IN  [self EXCEPT !.cursor_position = Position(cx, cy),
                     !.offset = scroll(Position(cx, cy), self.offset, size),
                     !.scrolls = self.scrolls + 1]

\* Editor::scroll: the only field written is offset.
self_scroll(self, size) ==
    [self EXCEPT !.offset = scroll(self.cursor_position, self.offset, size),
                 !.scrolls = self.scrolls + 1]

\* Variant: a move to the first row or column also resets the offset.
self_move_cursor_resets_offset(self, key) ==
    LET c == move_cursor(self.cursor_position, key, self.document)
    IN  [self EXCEPT !.cursor_position = c,
                     !.offset = Position(IF c.x = 0 THEN 0 ELSE self.offset.x,
                                         IF c.y = 0 THEN 0 ELSE self.offset.y)]

\* Editor::move_cursor: the only field written is cursor_position.
self_move_cursor(self, key) ==
    [self EXCEPT !.cursor_position = move_cursor(self.cursor_position, key, self.document)]

(***************************************************************************)
(* Terminal output.  An operation is its name and up to two numbers.       *)
(***************************************************************************)
Op(name, a, b) == [op |-> name, x |-> a, y |-> b]

\* draw_rows: `for terminal_row in 0..height - 1` over a u16 height.  For a
\* height of 0 the subtraction overflows: a build with overflow checks aborts
\* there, a build without them wraps to u16::MAX iterations.
draw_rows_overflows(size) == size.height = 0

draw_rows(size) == IF size.height = 0 THEN U16_MAX ELSE size.height - 1

\* Variant: the banner is printed without asking whether the document is empty.
draw_rows_line_any_document(terminal_row, doc, off, size) ==
    IF document_row(doc, terminal_row + off.y) # << >>
    THEN Op("draw_row", terminal_row, terminal_row + off.y)
    ELSE IF terminal_row = size.height \div 3
    THEN Op("welcome_msg", terminal_row, 0)
    ELSE Op("blank", terminal_row, 0)

\* The body of the loop of draw_rows after the line is cleared: what is
\* printed on screen line terminal_row.  A document row is named by its index.
draw_rows_line(terminal_row, doc, off, size) ==
    IF document_row(doc, terminal_row + off.y) # << >>
    THEN Op("draw_row", terminal_row, terminal_row + off.y)
    ELSE IF document_is_empty(doc) /\ terminal_row = size.height \div 3
    THEN Op("welcome_msg", terminal_row, 0)
    ELSE Op("blank", terminal_row, 0)

\* The lines of draw_rows in order, two operations each (clear the line, print
\* it), written out for the first MaxBodyRows lines of the loop.
draw_rows_lines(doc, off, size) ==
    LET n == IF draw_rows(size) < MaxBodyRows THEN draw_rows(size) ELSE MaxBodyRows
    IN  [i \in 1..(2 * n) |->
            IF i % 2 = 1
            THEN Op("clear_current_line", (i - 1) \div 2, 0)
            ELSE draw_rows_line((i - 2) \div 2, doc, off, size)]

\* Variant: the cursor is shown again before anything is drawn.
refresh_screen_show_first(quit, cur, off, doc, size) ==
    <<Op("cursor_hide", 0, 0), Op("cursor_position", 0, 0), Op("cursor_show", 0, 0)>>
    \o (IF quit
        THEN <<Op("clear_screen", 0, 0), Op("print_bye", 0, 0)>>
        ELSE <<Op("draw_rows", draw_rows(size), 0)>>
             \o draw_rows_lines(doc, off, size)
             \o <<Op("cursor_position", saturating_sub(cur.x, off.x),
                                        saturating_sub(cur.y, off.y))>>)
    \o <<Op("flush", 0, 0)>>

\* Variant: the cursor is placed at its document position.
refresh_screen_document_position(quit, cur, off, doc, size) ==
    <<Op("cursor_hide", 0, 0), Op("cursor_position", 0, 0)>>
    \o (IF quit
        THEN <<Op("clear_screen", 0, 0), Op("print_bye", 0, 0)>>
        ELSE <<Op("draw_rows", draw_rows(size), 0)>>
             \o draw_rows_lines(doc, off, size)
             \o <<Op("cursor_position", cur.x, cur.y)>>)
    \o <<Op("cursor_show", 0, 0), Op("flush", 0, 0)>>

\* refresh_screen up to (and including) the call of Terminal::flush.  The
\* operation "draw_rows" marks the start of the loop and carries its number of
\* iterations.
refresh_screen(quit, cur, off, doc, size) ==
    <<Op("cursor_hide", 0, 0), Op("cursor_position", 0, 0)>>
    \o (IF quit
        THEN <<Op("clear_screen", 0, 0), Op("print_bye", 0, 0)>>
        ELSE <<Op("draw_rows", draw_rows(size), 0)>>
             \o draw_rows_lines(doc, off, size)
             \o <<Op("cursor_position", saturating_sub(cur.x, off.x),
                                        saturating_sub(cur.y, off.y))>>)
    \o <<Op("cursor_show", 0, 0), Op("flush", 0, 0)>>

\* refresh_screen when draw_rows aborts on the overflow: what was issued before it.
refresh_screen_aborted == <<Op("cursor_hide", 0, 0), Op("cursor_position", 0, 0)>>

\* Variant: die clears the screen and returns, so the loop goes on.
die_returns(o) == [pc |-> "refresh", out |-> Append(o, Op("clear_all", 0, 0))]

\* die: clear the screen, then panic.  The place run is at afterwards and the
\* output with the clear appended.
die(o) == [pc |-> "died", out |-> Append(o, Op("clear_all", 0, 0))]

\* Variant: the loop has no break.
run_after_refresh_no_break(quit) == "keypress"

\* `if self.want_quit { break; }` after a successful refresh_screen.
run_after_refresh(quit) == IF quit THEN "exited" ELSE "keypress"

(***************************************************************************)
(* Editor::process_keypress after a successful read_key: the new           *)
(* want_quit, cursor_position and offset.                                  *)
(***************************************************************************)
\* Variant: scroll runs before the key is handled.
process_keypress_scroll_first(key, quit, cur, off, doc, size) ==
    LET self == self_scroll([want_quit |-> quit, cursor_position |-> cur, offset |-> off,
                             document |-> doc, scrolls |-> 0], size)
    IN  IF key = "Ctrl_p" THEN [self EXCEPT !.want_quit = TRUE]
        ELSE IF is_move_key(key) THEN self_move_cursor(self, key)
        ELSE IF is_move_shortcut(key) THEN self_move_cursor(self, key)
        ELSE self

\* Variant: a key that is no command still scrolls, and scrolls again.
process_keypress_scroll_twice(key, quit, cur, off, doc, size) ==
    LET self == [want_quit |-> quit, cursor_position |-> cur, offset |-> off,
                 document |-> doc, scrolls |-> 0]
        handled == IF key = "Ctrl_p" THEN [self EXCEPT !.want_quit = TRUE]
                   ELSE IF is_move_key(key) THEN self_scroll(self_move_cursor(self, key), size)
                   ELSE IF is_move_shortcut(key) THEN self_move_cursor(self, key)
                   ELSE self
    IN  self_scroll(handled, size)

\* Variant: the first test is the last arm, so any key that is no movement
\* key or shortcut exits.
process_keypress_other_key_quits(key, quit, cur, off, doc, size) ==
    LET self == [want_quit |-> quit, cursor_position |-> cur, offset |-> off,
                 document |-> doc, scrolls |-> 0]
        handled == IF is_move_key(key) THEN self_move_cursor(self, key)
                   ELSE IF is_move_shortcut(key) THEN self_move_cursor(self, key)
                   ELSE [self EXCEPT !.want_quit = TRUE]
    IN  self_scroll(handled, size)

\* The result is the editor after the call; its `scrolls` is the number of
\* scroll calls the call made.
process_keypress(key, quit, cur, off, doc, size) ==
    LET self == [want_quit |-> quit, cursor_position |-> cur, offset |-> off,
                 document |-> doc, scrolls |-> 0]
        handled == IF key = "Ctrl_p" THEN [self EXCEPT !.want_quit = TRUE]
                   ELSE IF is_move_key(key) THEN self_move_cursor(self, key)
                   ELSE IF is_move_shortcut(key) THEN self_move_cursor(self, key)
                   ELSE self
    IN  self_scroll(handled, size)

(***************************************************************************)
(* The program: Editor::default, then Editor::run.                         *)
(***************************************************************************)
\* The documents a run may open (an empty one when there is no file or the
\* file cannot be opened) and the sizes the terminal may report.
Doc5 == <<10, 3, 0, 20, 5>>

Docs == { << >>, <<2, 0, 3>>, <<4, 1>>, Doc5 }

Sizes == { Size(80, 24), Size(3, 2), Size(1, 1), Size(0, 2), Size(2, 0) }

\* Document::default: the empty document.
document_default == << >>

\* How the document comes about: no argument, a file that opens, a file that
\* does not.
Sources == {"no_path", "opened", "open_failed"}

\* Variant: `unwrap()` in place of `unwrap_or_default()`: a failed open aborts.
editor_default_unwrap(source, file) ==
    [document |-> IF source = "opened" THEN file ELSE document_default,
     pc |-> IF source = "open_failed" THEN "aborted" ELSE "refresh"]

\* Editor::default: the document it builds, and where the program goes next
\* (main calls run on the result).
editor_default(source, file) ==
    [document |-> IF source = "no_path" THEN document_default
                  ELSE IF source = "opened" THEN file
                  ELSE document_default,
     pc |-> "refresh"]

InitEditorFrom(source, file, size) ==
    /\ want_quit = FALSE
    /\ terminal = size
    /\ cursor_position = Position(0, 0)
    /\ offset = Position(0, 0)
    /\ document = editor_default(source, file).document
    /\ pc = editor_default(source, file).pc
    /\ pressed_key = "none"
    /\ entry = Position(0, 0)
    /\ error = "none"
    /\ out = << >>
    /\ quit_frames = 0
    /\ quit_keys = 0
    /\ downs = 0
    /\ all_down = TRUE
    /\ document_source = source
    /\ frames = 0
    /\ keys_read = 0
    /\ scrolls = 0
    /\ scrolled_empty = FALSE

\* The editor on a file that opened with rows `doc`.
InitEditor(doc, size) == InitEditorFrom("opened", doc, size)

Init == \E source \in Sources, file \in Docs, size \in Sizes :
            InitEditorFrom(source, file, size)

Bump(n) == IF n < 2 THEN n + 1 ELSE n

\* n + k, counted up to MaxCount.
Count(n, k) == IF n + k < MaxCount THEN n + k ELSE MaxCount

\* One frame whose flush succeeds, then the want_quit test of the loop.
run_refresh ==
    /\ pc = "refresh"
    /\ out' = refresh_screen(want_quit, cursor_position, offset, document, terminal)
    /\ pc' = run_after_refresh(want_quit)
    /\ quit_frames' = IF want_quit THEN Bump(quit_frames) ELSE quit_frames
    /\ pressed_key' = "none"
    /\ entry' = Position(0, 0)
    /\ frames' = Count(frames, 1)
    /\ UNCHANGED <<want_quit, terminal, cursor_position, offset, document, error,
                   quit_keys, downs, all_down, document_source, keys_read, scrolls,
                   scrolled_empty>>

\* One frame whose flush fails: run hands the error to die.
run_refresh_die ==
    /\ pc = "refresh"
    /\ LET d == die(refresh_screen(want_quit, cursor_position, offset, document, terminal))
       IN  pc' = d.pc /\ out' = d.out
    /\ error' = "flush"
    /\ quit_frames' = IF want_quit THEN Bump(quit_frames) ELSE quit_frames
    /\ pressed_key' = "none"
    /\ entry' = Position(0, 0)
    /\ frames' = Count(frames, 1)
    /\ UNCHANGED <<want_quit, terminal, cursor_position, offset, document,
                   quit_keys, downs, all_down, document_source, keys_read, scrolls,
                   scrolled_empty>>

\* A frame of a build with overflow checks on a terminal of height 0:
\* draw_rows aborts the process (not through die).
run_refresh_overflow ==
    /\ pc = "refresh"
    /\ ~want_quit
    /\ draw_rows_overflows(terminal)
    /\ out' = refresh_screen_aborted
    /\ pc' = "aborted"
    /\ pressed_key' = "none"
    /\ entry' = Position(0, 0)
    /\ UNCHANGED <<want_quit, terminal, cursor_position, offset, document, error,
                   quit_frames, quit_keys, downs, all_down, document_source>>
    /\ UNCHANGED counters

\* process_keypress with read_key returning `key`.
run_keypress(key) ==
    /\ pc = "keypress"
    /\ LET r == process_keypress(key, want_quit, cursor_position, offset,
                                 document, terminal)
       IN  /\ want_quit' = r.want_quit
           /\ cursor_position' = r.cursor_position
           /\ offset' = r.offset
           /\ document' = r.document
           /\ scrolls' = Count(scrolls, r.scrolls)
           /\ scrolled_empty' = IF r.scrolls > 0
                                 THEN terminal.width = 0 \/ terminal.height = 0
                                 ELSE scrolled_empty
    /\ keys_read' = Count(keys_read, 1)
    /\ pc' = "refresh"
    /\ pressed_key' = key
    /\ entry' = cursor_position
    /\ out' = << >>
    /\ quit_keys' = IF want_quit THEN Bump(quit_keys) ELSE quit_keys
    /\ IF all_down /\ key = "Down" /\ downs < MaxDowns
       THEN downs' = downs + 1 /\ all_down' = TRUE
       ELSE downs' = 0 /\ all_down' = FALSE
    /\ UNCHANGED <<terminal, error, quit_frames, document_source, frames>>

\* process_keypress with read_key failing: `?` returns the error at once, and
\* run hands it to die.
run_keypress_die ==
    /\ pc = "keypress"
    /\ LET d == die(<< >>)
       IN  pc' = d.pc /\ out' = d.out
    /\ error' = "read_key"
    /\ UNCHANGED <<want_quit, terminal, cursor_position, offset, document,
                   pressed_key, entry, quit_frames, quit_keys, downs, all_down,
                   document_source>>
    /\ UNCHANGED counters

\* The environment: the terminal is resized while the loop runs.
resize(size) ==
    /\ pc \in {"refresh", "keypress"}
    /\ size # terminal
    /\ terminal' = size
    /\ out' = << >>
    /\ downs' = 0
    /\ all_down' = FALSE
    /\ UNCHANGED <<want_quit, cursor_position, offset, document, pc, pressed_key,
                   entry, error, quit_frames, quit_keys, document_source>>
    /\ UNCHANGED counters

Next ==
    \/ run_refresh
    \/ run_refresh_die
    \/ run_refresh_overflow
    \/ \E key \in Keys : run_keypress(key)
    \/ run_keypress_die
    \/ \E size \in Sizes : resize(size)

Spec == Init /\ [][Next]_vars

(***************************************************************************)
(* The scrolling scenario: a 50-row document on an 80x24 terminal whose    *)
(* size stays as it is, so neither resize nor the height-0 abort occurs.   *)
(***************************************************************************)
Doc50 == [i \in 1..50 |-> i % 3]

InitScenario == InitEditor(Doc50, Size(80, 24))

NextScenario ==
    \/ run_refresh
    \/ run_refresh_die
    \/ \E key \in Keys : run_keypress(key)
    \/ run_keypress_die

SpecScenario == InitScenario /\ [][NextScenario]_vars

(***************************************************************************)
(* The program on a terminal that keeps the size it starts with: any       *)
(* document, any size, no resize.                                          *)
(***************************************************************************)
NextFixed ==
    \/ run_refresh
    \/ run_refresh_die
    \/ run_refresh_overflow
    \/ \E key \in Keys : run_keypress(key)
    \/ run_keypress_die

SpecFixed == Init /\ [][NextFixed]_vars

(***************************************************************************)
(* A single call of move_cursor on any cursor position, also positions     *)
(* outside the document.                                                   *)
(***************************************************************************)
MoveDocs == { << >>, Doc5, <<2, 0, 3>> }

InitMove ==
    /\ want_quit = FALSE
    /\ terminal = Size(80, 24)
    /\ cursor_position \in { Position(px, py) : px \in 0..MaxX \cup {USIZE_MAX},
                                                py \in 0..MaxY \cup {USIZE_MAX} }
    /\ offset = Position(0, 0)
    /\ document \in MoveDocs
    /\ pc = "call"
    /\ pressed_key = "none"
    /\ entry = Position(0, 0)
    /\ error = "none"
    /\ out = << >>
    /\ quit_frames = 0
    /\ quit_keys = 0
    /\ downs = 0
    /\ all_down = FALSE
    /\ document_source = "opened"
    /\ frames = 0
    /\ keys_read = 0
    /\ scrolls = 0
    /\ scrolled_empty = FALSE

\* The editor as the record a method works on.
Self == [want_quit |-> want_quit, cursor_position |-> cursor_position,
         offset |-> offset, document |-> document, scrolls |-> 0]

move_cursor_call(key) ==
    /\ pc = "call"
    /\ LET r == self_move_cursor(Self, key)
       IN  /\ want_quit' = r.want_quit
           /\ cursor_position' = r.cursor_position
           /\ offset' = r.offset
           /\ document' = r.document
    /\ pressed_key' = key
    /\ entry' = cursor_position
    /\ pc' = "moved"
    /\ UNCHANGED <<terminal, error, out, quit_frames, quit_keys, downs, all_down,
                   document_source>>
    /\ UNCHANGED counters

NextMove == \E key \in Keys : move_cursor_call(key)

SpecMove == InitMove /\ [][NextMove]_vars

(***************************************************************************)
(* A single call of scroll, and a second one after it, on any cursor,      *)
(* offset and terminal size.                                               *)
(***************************************************************************)
ScrollCoords == 0..MaxCoord \cup {USIZE_MAX - 1, USIZE_MAX}

ScrollExtents == {0, 1, 2, U16_MAX}

InitScroll ==
    /\ want_quit = FALSE
    /\ terminal \in { Size(w, h) : w \in ScrollExtents, h \in ScrollExtents }
    /\ cursor_position \in { Position(px, py) : px \in ScrollCoords, py \in ScrollCoords }
    /\ offset \in { Position(px, py) : px \in ScrollCoords, py \in ScrollCoords }
    /\ document = << >>
    /\ pc = "call"
    /\ pressed_key = "none"
    /\ entry = Position(0, 0)
    /\ error = "none"
    /\ out = << >>
    /\ quit_frames = 0
    /\ quit_keys = 0
    /\ downs = 0
    /\ all_down = FALSE
    /\ document_source = "no_path"
    /\ frames = 0
    /\ keys_read = 0
    /\ scrolls = 0
    /\ scrolled_empty = FALSE

\* entry keeps the offset the first call was given.
scroll_call ==
    /\ pc \in {"call", "scrolled"}
    /\ LET r == self_scroll(Self, terminal)
       IN  /\ want_quit' = r.want_quit
           /\ cursor_position' = r.cursor_position
           /\ offset' = r.offset
           /\ document' = r.document
    /\ entry' = IF pc = "call" THEN offset ELSE entry
    /\ pc' = IF pc = "call" THEN "scrolled" ELSE "scrolled_twice"
    /\ UNCHANGED <<terminal, pressed_key, error, out, quit_frames, quit_keys, downs,
                   all_down, document_source>>
    /\ UNCHANGED counters

NextScroll == scroll_call

SpecScroll == InitScroll /\ [][NextScroll]_vars

(***************************************************************************)
(* The two methods side by side: from any editor, one call of move_cursor, *)
(* or one call of scroll and a second one after it.                        *)
(***************************************************************************)
MethodSizes == { Size(0, 0), Size(1, 2), Size(80, 24) }

InitMethods ==
    /\ want_quit \in BOOLEAN
    /\ terminal \in MethodSizes
    /\ cursor_position \in { Position(px, py) : px \in 0..MaxCoord \cup {USIZE_MAX},
                                                py \in 0..MaxCoord \cup {USIZE_MAX} }
    /\ offset \in { Position(px, py) : px \in 0..MaxCoord, py \in 0..MaxCoord }
    /\ document \in MoveDocs
    /\ pc = "call"
    /\ pressed_key = "none"
    /\ entry = Position(0, 0)
    /\ error = "none"
    /\ out = << >>
    /\ quit_frames = 0
    /\ quit_keys = 0
    /\ downs = 0
    /\ all_down = FALSE
    /\ document_source = "opened"
    /\ frames = 0
    /\ keys_read = 0
    /\ scrolls = 0
    /\ scrolled_empty = FALSE

NextMethods ==
    \/ \E key \in Keys : move_cursor_call(key)
    \/ scroll_call

SpecMethods == InitMethods /\ [][NextMethods]_vars

(***************************************************************************)
(* Properties.                                                             *)
(***************************************************************************)
NavKeys == MOVE_KEYS \cup SHORTCUT_MOVE_KEYS

\* The length of row y of the document; 0 for every row past the last one.
RowLength(y) == IF y < Len(document) THEN document[y + 1] ELSE 0

Min(a, b) == IF a <= b THEN a ELSE b

\* C1: in every state the program reaches from cursor (0,0), offset (0,0) by
\* key presses, cursor.y <= document.len() and cursor.x <= row_length(cursor.y),
\* the row length of the past-the-end row being 0.
C1_CursorInsideDocument ==
    /\ cursor_position.y <= Len(document)
    /\ cursor_position.x <= RowLength(cursor_position.y)

\* Reached: Down from the end of a longer row onto a shorter one, x clamped.
C1_Witness ==
    /\ pc = "refresh"
    /\ pressed_key = "Down"
    /\ cursor_position.y = entry.y + 1
    /\ entry.x > RowLength(cursor_position.y)
    /\ cursor_position.x = RowLength(cursor_position.y)

\* C2: after every key press (process_keypress ends with scroll), for the
\* terminal size that scroll read, if width >= 1 and height >= 1 then
\* offset.y <= cursor.y < offset.y + height and offset.x <= cursor.x < offset.x + width.
C2_CursorInsideWindow ==
    [][ (pc = "keypress" /\ pc' = "refresh"
            /\ terminal.width >= 1 /\ terminal.height >= 1)
        => /\ offset'.y <= cursor_position'.y
           /\ cursor_position'.y < offset'.y + terminal.height
           /\ offset'.x <= cursor_position'.x
           /\ cursor_position'.x < offset'.x + terminal.width ]_vars

\* Reached: a key press moved the cursor below the window and scroll followed it.
C2_Witness ==
    /\ pc = "refresh"
    /\ pressed_key \in {"Down", "j", "PageDown"}
    /\ terminal.height >= 1
    /\ offset.y > 0
    /\ cursor_position.y = offset.y + terminal.height - 1
    /\ entry.y < cursor_position.y

C4_Command(pos, key) ==
    CASE key \in {"Up", "k"}    -> [x |-> pos.x, y |-> IF pos.y = 0 THEN 0 ELSE pos.y - 1]
      [] key \in {"Down", "j"}  -> [x |-> pos.x,
                                    y |-> IF pos.y < Len(document) THEN pos.y + 1 ELSE pos.y]
      [] key \in {"Left", "h"}  -> [x |-> IF pos.x = 0 THEN 0 ELSE pos.x - 1, y |-> pos.y]
      [] key \in {"Right", "l"} -> [x |-> IF pos.x < RowLength(pos.y) THEN pos.x + 1 ELSE pos.x,
                                    y |-> pos.y]
      [] key = "PageDown"       -> [x |-> pos.x, y |-> Len(document)]
      [] key = "PageUp"         -> [x |-> pos.x, y |-> 0]
      [] key = "Home"           -> [x |-> 0, y |-> pos.y]
      [] key = "End"            -> [x |-> RowLength(pos.y), y |-> pos.y]

\* C4: for every cursor position, document and command, move_cursor returns the
\* command's effect (Up y-1 saturating at 0, Down y+1 only if y < document_len,
\* Left x-1 saturating at 0, Right x+1 only if x < row_length(y), PageDown
\* y = document_len, PageUp y = 0, Home x = 0, End x = row_length(y)) followed
\* by x := min(x, row_length(resulting y)).
C4_MoveCursorExact ==
    (pc = "moved" /\ pressed_key \in NavKeys)
    => LET c == C4_Command(entry, pressed_key)
       IN  cursor_position = [x |-> Min(c.x, RowLength(c.y)), y |-> c.y]

\* Reached: PageDown from inside a row to the row past the end, x clamped to 0.
C4_Witness ==
    /\ pc = "moved"
    /\ pressed_key = "PageDown"
    /\ Len(document) > 0
    /\ entry.y < Len(document)
    /\ entry.x > 0
    /\ cursor_position = [x |-> 0, y |-> Len(document)]

\* C5 as stated: for every cursor, offset and terminal size, a second scroll
\* with cursor and size unchanged leaves the offset as the first one left it.
C5_ScrollIdempotent ==
    [][ pc = "scrolled" => offset' = offset ]_vars

\* C5 amended: the same on each axis whose terminal extent is at least 1
\* (x when width >= 1, y when height >= 1).
C5_ScrollIdempotentNonEmptyWindow ==
    [][ pc = "scrolled"
        => /\ terminal.width >= 1 => offset'.x = offset.x
           /\ terminal.height >= 1 => offset'.y = offset.y ]_vars

\* Reached: two calls on a window of width and height >= 1, the first of which
\* moved the offset forward on both axes.
C5_Witness ==
    /\ pc = "scrolled_twice"
    /\ terminal.width >= 1
    /\ terminal.height >= 1
    /\ offset.x > entry.x
    /\ offset.y > entry.y

\* C6: Up and Left at cursor (0,0) leave it at (0,0); Down at
\* cursor.y = document_len and Right at cursor.x = row_length(cursor.y) leave
\* the cursor unchanged; the run goes on to the next frame (no abort).
C6_MovesAtTheEdges ==
    /\ (pressed_key \in {"Up", "k", "Left", "h"} /\ entry = [x |-> 0, y |-> 0])
       => cursor_position = [x |-> 0, y |-> 0]
    /\ (pressed_key \in {"Down", "j"} /\ entry.y = Len(document))
       => cursor_position = entry
    /\ (pressed_key \in {"Right", "l"} /\ entry.x = RowLength(entry.y))
       => cursor_position = entry
    /\ pressed_key \in NavKeys
       => (pc = "refresh" /\ error = "none"
           /\ cursor_position.x >= 0 /\ cursor_position.y >= 0)

\* Reached: Down pressed with the cursor on the row past the end of a document
\* that has rows.
C6_Witness ==
    /\ pc = "refresh"
    /\ pressed_key = "Down"
    /\ Len(document) > 0
    /\ entry.y = Len(document)

\* C7: from cursor (0,0), offset (0,0), height 24, 50 rows: after the n-th
\* consecutive Down press offset.y is 0 for n <= 23 and n - 24 + 1 for
\* 24 <= n <= 30 (7 after the 30th).
C7_ThirtyDowns ==
    (all_down /\ downs <= 30)
    => offset.y = (IF downs <= 23 THEN 0 ELSE downs - 24 + 1)

\* Reached: the 30th consecutive Down press has been processed.
C7_Witness ==
    /\ all_down
    /\ downs = 30
    /\ pressed_key = "Down"
    /\ pc = "refresh"

\* C8: on rows of lengths [10, 3, 0, 20, 5], Down at cursor (8, 1) gives (0, 2).
C8_DownOntoEmptyRow ==
    (pc = "moved" /\ document = Doc5 /\ pressed_key = "Down"
        /\ entry = [x |-> 8, y |-> 1])
    => cursor_position = [x |-> 0, y |-> 2]

\* Reached: that call.
C8_Witness ==
    /\ pc = "moved"
    /\ document = <<10, 3, 0, 20, 5>>
    /\ pressed_key = "Down"
    /\ entry.x = 8
    /\ entry.y = 1

Last(s) == s[Len(s)]

OpsOf(s) == { s[i].op : i \in 1..Len(s) }

\* What C9 says of the states after the exit command: no key is read any more,
\* one frame at most is rendered and run ends right after it, and that frame
\* clears the screen and prints the farewell instead of drawing rows.
C9_Quitting ==
    want_quit
    => /\ quit_keys = 0
       /\ pc \in {"refresh", "exited", "died"}
       /\ pc = "refresh" <=> quit_frames = 0
       /\ pc \in {"exited", "died"} <=> quit_frames = 1
       /\ quit_frames = 1
          => /\ {"clear_screen", "print_bye", "flush"} \subseteq OpsOf(out)
             /\ "draw_rows" \notin OpsOf(out)

\* C9 as stated: once Ctrl-P is read the editor is Quitting for good, exactly
\* one more frame (the farewell) is rendered, the loop ends with no further key
\* read, and the exit command leaves cursor and offset unchanged.
C9_ExitCommand ==
    /\ []C9_Quitting
    /\ [][ /\ want_quit => want_quit'
           /\ (pc = "keypress" /\ pressed_key' = "Ctrl_p")
              => /\ want_quit'
                 /\ cursor_position' = cursor_position
                 /\ offset' = offset ]_vars

\* The cursor is inside the window that `size` gives at offset `off`.
InWindow(cur, off, size) ==
    /\ off.x <= cur.x /\ cur.x < off.x + size.width
    /\ off.y <= cur.y /\ cur.y < off.y + size.height

\* C9 amended: as stated, except that the exit command leaves the offset
\* unchanged only if the cursor is inside the window of the current terminal
\* size (process_keypress runs scroll after the exit command too).
C9_ExitCommandScrolls ==
    /\ []C9_Quitting
    /\ [][ /\ want_quit => want_quit'
           /\ (pc = "keypress" /\ pressed_key' = "Ctrl_p")
              => /\ want_quit'
                 /\ cursor_position' = cursor_position
                 /\ InWindow(cursor_position, offset, terminal)
                    => offset' = offset ]_vars

\* Reached: the farewell frame after an exit command that came after movement.
C9_Witness ==
    /\ want_quit
    /\ pc = "exited"
    /\ quit_frames = 1
    /\ cursor_position.y > 0

\* C10: a failed flush or key read is fatal and not retried.  The error goes to
\* die, which clears the screen and ends the process: nothing happens after it
\* (no key read, no frame).  A failed key read leaves cursor, offset and quit
\* flag as they were (scroll is not run).
C10_IoFailureIsFatal ==
    /\ [](/\ error # "none" <=> pc = "died"
          /\ pc = "died" => Last(out).op = "clear_all")
    /\ [][ /\ pc # "died"
           /\ error' = "flush"
              => (pc = "refresh" /\ pc' = "died" /\ pressed_key' = "none")
           /\ error' = "read_key"
              => /\ pc = "keypress" /\ pc' = "died"
                 /\ UNCHANGED <<cursor_position, offset, want_quit, pressed_key>> ]_vars

\* Reached: a failed key read on a terminal of width 0, where a scroll would
\* have changed the offset.
C10_Witness ==
    /\ pc = "died"
    /\ error = "read_key"
    /\ terminal.width = 0
    /\ cursor_position.y > 0

\* The operations that print a screen line.
LineOps == {"draw_row", "welcome_msg", "blank"}

\* `out` holds a frame that drew rows.
NormalFrame == out # << >> /\ "draw_rows" \in OpsOf(out)

\* The lines a sequence of operations prints.
LinesOf(s) == { s[i] : i \in { j \in 1..Len(s) : s[j].op \in LineOps } }

\* C11: in a frame that draws rows, the welcome banner is printed on body row r
\* exactly when the document is empty and r = height / 3 (integer division),
\* and on no row when the document has a row.  For the empty document on an
\* 80x24 terminal the banner is on row 8 and each other body row 0..22 shows
\* the blank-line placeholder.
C11_WelcomeBanner ==
    NormalFrame =>
        /\ \A line \in LinesOf(out) :
               line.op = "welcome_msg"
                   <=> (document = << >> /\ line.x = terminal.height \div 3)
        /\ document # << >> => "welcome_msg" \notin OpsOf(out)
        /\ (document = << >> /\ terminal = Size(80, 24))
               => LinesOf(out) = {Op("welcome_msg", 8, 0)}
                                 \cup { Op("blank", r, 0) : r \in (0..22) \ {8} }

\* Reached: the frame of the empty document on an 80x24 terminal, with the
\* banner on row 8, and the loop waiting for a key.
C11_Witness ==
    /\ NormalFrame
    /\ pc = "keypress"
    /\ document = << >>
    /\ terminal = Size(80, 24)
    /\ Op("welcome_msg", 8, 0) \in LinesOf(out)

\* C12: when a path is given and the file cannot be opened, the error goes no
\* further: the editor starts as it does without a path, in the Normal state
\* with an empty document, cursor (0,0) and offset (0,0), and the loop of run
\* is entered.  The fatal-error path is then taken only for a failed flush or
\* key read of that loop.
C12_OpenFailureIsSilent ==
    /\ document_source \in {"open_failed", "no_path"}
           => /\ pc = "refresh"
              /\ error = "none"
              /\ ~want_quit
              /\ document = << >>
              /\ cursor_position = Position(0, 0)
              /\ offset = Position(0, 0)
    /\ [](document_source = "open_failed"
             => /\ document = << >>
                /\ pc = "died" => (frames >= 1 /\ error \in {"flush", "read_key"}))

\* Reached: after a failed open the first frame is on screen, with the welcome
\* banner of the empty document, and the loop waits for a key.
C12_Witness ==
    /\ document_source = "open_failed"
    /\ pc = "keypress"
    /\ frames = 1
    /\ keys_read = 0
    /\ "welcome_msg" \in OpsOf(out)

\* C13: the loop alternates frame, key, update.  A frame is rendered before
\* the first key is read; the loop waits for a key only after a frame whose
\* flush succeeded; each key read runs scroll once, on the cursor the key left,
\* and the next step of the loop is a frame; when run returns, the frames
\* rendered are the keys read plus one.
C13_FrameKeyAlternation ==
    /\ [](keys_read < MaxCount
             => /\ scrolls = keys_read
                /\ pc \in {"refresh", "aborted"} => frames = keys_read
                /\ pc \in {"keypress", "exited", "died"} => frames = keys_read + 1)
    /\ [][ /\ (pc' = "keypress" /\ pc # "keypress")
              => (pc = "refresh" /\ error' = "none" /\ Last(out').op = "flush")
           /\ (pc = "keypress" /\ pc' # "keypress") => pc' \in {"refresh", "died"}
           /\ (pc = "keypress" /\ pc' = "refresh")
              => /\ pressed_key' # "none"
                 /\ frames >= 1
                 /\ keys_read < MaxCount
                       => (keys_read' = keys_read + 1 /\ scrolls' = scrolls + 1)
                 /\ offset' = scroll(cursor_position', offset, terminal) ]_vars

\* Reached: run has returned after two keys and three frames, the cursor
\* having moved.
C13_Witness ==
    /\ pc = "exited"
    /\ keys_read = 2
    /\ frames = 3
    /\ scrolls = 2
    /\ cursor_position.y > 0

\* What C14 says of one axis: cursor coordinate c, offset o before and o2 after
\* the scroll, window size e.
C14_Axis(c, o, o2, e) ==
    /\ (o <= c /\ c < o + e) => o2 = o
    /\ c < o => o2 = c
    /\ c >= o + e => o2 = c - e + 1

\* C14: the scroll of a key press adjusts the offset on each axis by itself and
\* no more than needed: unchanged when the cursor coordinate is inside
\* [offset, offset + size), equal to the cursor coordinate when that is below
\* the offset, and cursor - size + 1 when it is at or beyond offset + size.
C14_ScrollMinimal ==
    [][ (pc = "keypress" /\ pc' = "refresh")
           => /\ C14_Axis(cursor_position'.x, offset.x, offset'.x, terminal.width)
              /\ C14_Axis(cursor_position'.y, offset.y, offset'.y, terminal.height) ]_vars

\* Reached: a Down has pushed the cursor past the bottom of the window and the
\* offset has followed, the cursor now on the last row of the window; the
\* column offset, whose cursor coordinate was inside, is still 0.
C14_Witness ==
    /\ pc = "refresh"
    /\ pressed_key = "Down"
    /\ terminal.height >= 1
    /\ terminal.width >= 1
    /\ offset.y > 0
    /\ offset.y = cursor_position.y - terminal.height + 1
    /\ offset.x = 0

\* The places in s, after the move to the top-left corner, where the terminal
\* cursor is positioned.
CursorPlacements(s) == { i \in 3..Len(s) : s[i].op = "cursor_position" }

\* The places in s where a screen line is cleared or printed.
LinePlaces(s) == { i \in 1..Len(s) : s[i].op \in LineOps \cup {"clear_current_line"} }

\* What C15 says: a frame that drew rows places the terminal cursor once, after
\* all the rows, at (cursor.x - offset.x, cursor.y - offset.y), neither
\* difference being negative; the farewell frame places no cursor.
C15_CursorPlacement ==
    /\ NormalFrame
           => /\ \E i \in 1..Len(out) :
                    /\ CursorPlacements(out) = {i}
                    /\ \A j \in LinePlaces(out) : j < i
                    /\ out[i].x = cursor_position.x - offset.x
                    /\ out[i].y = cursor_position.y - offset.y
              /\ cursor_position.x >= offset.x
              /\ cursor_position.y >= offset.y
    /\ "print_bye" \in OpsOf(out) => CursorPlacements(out) = {}

\* C15 amended: the cursor is placed at the saturating differences; these are
\* the plain differences, neither negative, unless the latest scroll read a
\* terminal width or height of 0.
C15_CursorPlacementSaturating ==
    /\ NormalFrame
           => /\ \E i \in 1..Len(out) :
                    /\ CursorPlacements(out) = {i}
                    /\ \A j \in LinePlaces(out) : j < i
                    /\ out[i].x = saturating_sub(cursor_position.x, offset.x)
                    /\ out[i].y = saturating_sub(cursor_position.y, offset.y)
              /\ ~scrolled_empty
                    => /\ cursor_position.x >= offset.x
                       /\ cursor_position.y >= offset.y
    /\ "print_bye" \in OpsOf(out) => CursorPlacements(out) = {}

\* Reached: a frame drawn after the window has scrolled down, the terminal
\* cursor placed below the first screen row and right of the first column.
C15_Witness ==
    /\ NormalFrame
    /\ pc = "keypress"
    /\ ~scrolled_empty
    /\ offset.y > 0
    /\ \E i \in CursorPlacements(out) :
           /\ out[i].y = cursor_position.y - offset.y
           /\ out[i].y > 0
           /\ out[i].x > 0

\* The places in s where operation name occurs.
Places(s, name) == { i \in 1..Len(s) : s[i].op = name }

\* The operations that draw: the rows with their header, or the farewell.
DrawOps == LineOps \cup {"draw_rows", "clear_current_line", "clear_screen", "print_bye"}

OtherKeyRead == pc = "keypress" /\ pc' = "refresh" /\ pressed_key' \notin NavKeys \cup {"Ctrl_p"}

\* What C17 says, on a terminal that keeps its size: a key that is no command
\* leaves cursor, offset, quit flag and document as they were.
C17_OtherKeyNoOp ==
    [][ OtherKeyRead => UNCHANGED <<cursor_position, offset, want_quit, document>> ]_vars

\* C17 amended: as stated, on a terminal that keeps its size and has a width
\* and a height of at least 1.
C17_OtherKeyNoOpNonEmptyWindow ==
    [][ (OtherKeyRead /\ terminal.width >= 1 /\ terminal.height >= 1)
           => UNCHANGED <<cursor_position, offset, want_quit, document>> ]_vars

\* Reached: a key that is no command was read after the window had scrolled
\* down, on a terminal with a width and a height of at least 1.
C17_Witness ==
    /\ pc = "refresh"
    /\ pressed_key = "a"
    /\ terminal.width >= 1
    /\ terminal.height >= 1
    /\ offset.y > 0
    /\ cursor_position.x > 0

\* C18: a call of move_cursor leaves the offset, the document and the quit flag
\* as they were; a call of scroll leaves the cursor position, the document and
\* the quit flag as they were.
C18_DisjointState ==
    [][ /\ pc' = "moved" => UNCHANGED <<offset, document, want_quit>>
        /\ pc' \in {"scrolled", "scrolled_twice"}
              => UNCHANGED <<cursor_position, document, want_quit>> ]_vars

\* Reached: scroll has moved the offset of an editor that is about to quit, on
\* a document with rows, the cursor outside the document.
C18_Witness ==
    /\ pc = "scrolled"
    /\ offset # entry
    /\ want_quit
    /\ document # << >>
    /\ cursor_position.y = USIZE_MAX

\* What C19 says: in a frame that drew rows the cursor's screen row
\* cursor.y - offset.y is one of the body rows 0 .. height - 2, the document
\* row under the cursor (when there is one) is among the rows drawn, and the
\* terminal cursor is not placed on the last screen line.
C19_CursorOnBodyRow ==
    NormalFrame =>
        LET r == cursor_position.y - offset.y
        IN  /\ 0 <= r
            /\ r < terminal.height - 1
            /\ cursor_position.y < Len(document)
                  => Op("draw_row", r, cursor_position.y) \in LinesOf(out)
            /\ \A i \in CursorPlacements(out) : out[i].y < terminal.height - 1

\* What C20 says: whatever height the terminal reports, 0 and 1 included, the
\* subtraction height - 1 neither aborts the program nor wraps, and a frame
\* that draws rows draws max(height - 1, 0) lines.
C20_BodyLineCount ==
    /\ pc # "aborted"
    /\ NormalFrame
          => \E i \in Places(out, "draw_rows") :
                out[i].x = (IF terminal.height >= 1 THEN terminal.height - 1 ELSE 0)

====
